---- MODULE Spec2Model ----
(***************************************************************************)
(* Model of https-proxy-server.js: a hostname-routed reverse proxy whose   *)
(* routing table lives in issuers-config.json and is re-read on every      *)
(* request.                                                                *)
(*                                                                         *)
(* Strings that the code takes apart (the Host header, the URL) are        *)
(* sequences of tokens, so that split(':'), startsWith and === are         *)
(* computed and not assumed.  The empty string is <<>>.                    *)
(*                                                                         *)
(* Node runs one handler at a time: every action below is one run of a     *)
(* handler or callback up to its return (or, in discoverIssuer, up to the  *)
(* await).  fs.*Sync calls happen inside the action that makes them.       *)
(*                                                                         *)
(* The environment: the file can be absent, unparsable or a JSON table; a  *)
(* writeFileSync can succeed, throw leaving the file as it was, or throw   *)
(* after the file was truncated; the process can be killed, also in the    *)
(* middle of a write.  Reading an intact file always succeeds.             *)
(*                                                                         *)
(* Spec follows every kind of request.  Probes follows the discovery of   *)
(* one request together with the connection of each of its probes, so     *)
(* that events arriving on a connection after its probe was settled are   *)
(* part of the behaviour; FairProbes adds that an awaited probe gets its  *)
(* answer, its error or its timeout.                                      *)
(***************************************************************************)
EXTENDS Integers, Sequences, FiniteSets, TLC

(* ------------------------------ bounds -------------------------------- *)

\* how many of the candidate ports of discoverIssuer the model probes
NumPorts == 2

\* the requests that can be in flight or answered and not yet forgotten
Slots == {"r1", "r2"}

(* ------------------------- program constants -------------------------- *)

Missing == <<"undefined">>      \* a property that the JSON body does not have

LOCALHOST == <<"localhost">>
ADMIN_PREFIX == <<"/proxy-admin">>
ADMIN_LIST == <<"/proxy-admin", "/list">>
ADMIN_ADD == <<"/proxy-admin", "/add">>
WELL_KNOWN == <<"/.well-known/openid-credential-issuer">>
ADMIN_URL == <<"https://localhost:8080/proxy-admin">>

\* const ports = [5000, 5001, ...] of discoverIssuer
AllPorts == <<5000, 5001, 5002, 5003, 5004, 5005, 8080, 8081, 8082, 8000, 8001>>
ports == SubSeq(AllPorts, 1, NumPorts)

\* `https://localhost:${port}`
TargetOf(port) == <<"https://localhost:", ToString(port)>>

\* `自動發現的發行者 (${hostname})`
AutoName(hostname) == <<"auto-discovered issuer (">> \o hostname \o <<")">>

FIDO == <<"fido.moi.gov.tw">>
LAND == <<"land.moi.gov.tw">>
ZUVI == <<"zuvi.io">>

\* the object literal DEFAULT_ISSUERS as written in the source
DefaultIssuersLiteral ==
    [h \in {FIDO, LAND, ZUVI} |->
        CASE h = FIDO -> [target |-> TargetOf(5000), name |-> <<"MOI citizen certificate">>]
          [] h = LAND -> [target |-> TargetOf(5001), name |-> <<"MOI land certificate">>]
          [] h = ZUVI -> [target |-> TargetOf(5002), name |-> <<"rental dapp">>]]

(* ------------------------------ strings ------------------------------- *)

\* s.startsWith(prefix)
StartsWith(s, prefix) ==
    /\ Len(s) >= Len(prefix)
    /\ SubSeq(s, 1, Len(prefix)) = prefix

\* s.split(':')[0]: what precedes the first ':' (all of s when it has none)
SplitColon0(s) ==
    LET colons == {i \in 1..Len(s) : s[i] = ":"}
        first == IF colons = {} THEN Len(s) + 1
                 ELSE CHOOSE i \in colons : \A j \in colons : i <= j
    IN SubSeq(s, 1, first - 1)

\* !x of JavaScript for the values a body property can take here
Falsy(x) == x = Missing \/ x = <<>>

(* ------------------------------ objects ------------------------------- *)

\* config[hostname] = value
Assign(config, hostname, value) ==
    [h \in DOMAIN config \cup {hostname} |->
        IF h = hostname THEN value ELSE config[h]]

\* JSON.stringify(config, null, 2): one member per own key
JSON_stringify(config) ==
    {<<h, config[h].target, config[h].name>> : h \in DOMAIN config}

\* JSON.parse(text) of a text that JSON.stringify produced
JSON_parse(text) ==
    [h \in {e[1] : e \in text} |->
        LET e == CHOOSE m \in text : m[1] = h
        IN [target |-> e[2], name |-> e[3]]]

(* ----------------------------- the file ------------------------------- *)

FileAbsent == [kind |-> "absent", text |-> {}]
FileCorrupt == [kind |-> "corrupt", text |-> {}]   \* exists, JSON.parse throws
FileJson(text) == [kind |-> "json", text |-> text]

\* how a call of fs.writeFileSync can end
WriteOutcomes == {"ok", "fail", "torn"}

\* fs.writeFileSync(CONFIG_PATH, text): opens with O_TRUNC, then writes
writeFileSync(f, text, wr) ==
    CASE wr = "ok" -> FileJson(text)
      [] wr = "fail" -> f             \* threw before the file was touched
      [] wr = "torn" -> FileCorrupt   \* threw after the truncation

\* what loadConfig returns and how it leaves the file.  With the file absent or
\* unparsable the result is the object DEFAULT_ISSUERS itself (byDefault), not
\* a copy of it.
loadConfig(f, defaults, wr) ==
    IF f.kind = "json"
    THEN [config |-> JSON_parse(f.text), file |-> f, byDefault |-> FALSE]
    ELSE [config |-> defaults,
          file |-> writeFileSync(f, JSON_stringify(defaults), wr),
          byDefault |-> TRUE]

\* saveConfig(config): true when the write did not throw
saveConfig(f, config, wr) ==
    [file |-> writeFileSync(f, JSON_stringify(config), wr), ok |-> wr = "ok"]

\* mutant: the entries start from DEFAULT_ISSUERS, the file is not read
addIssuer_FromDefaults(hostname, target, name, f, defaults, wr1, wr2) ==
    LET config == Assign(defaults, hostname, [target |-> target, name |-> name])
        s == saveConfig(f, config, wr2)
    IN [file |-> s.file, defaults |-> config, ok |-> s.ok]

\* mutant: an entry that exists keeps its name, only its target is set
addIssuer_KeepsName(hostname, target, name, f, defaults, wr1, wr2) ==
    LET l == loadConfig(f, defaults, wr1)
        kept == IF hostname \in DOMAIN l.config THEN l.config[hostname].name ELSE name
        config == Assign(l.config, hostname, [target |-> target, name |-> kept])
        s == saveConfig(l.file, config, wr2)
    IN [file |-> s.file,
        defaults |-> IF l.byDefault THEN config ELSE defaults,
        ok |-> s.ok]

\* addIssuer(hostname, target, name): load, assign, save.  The assignment goes
\* to the object loadConfig returned, which is DEFAULT_ISSUERS when byDefault.
addIssuer(hostname, target, name, f, defaults, wr1, wr2) ==
    LET l == loadConfig(f, defaults, wr1)
        config == Assign(l.config, hostname, [target |-> target, name |-> name])
        s == saveConfig(l.file, config, wr2)
    IN [file |-> s.file,
        defaults |-> IF l.byDefault THEN config ELSE defaults,
        ok |-> s.ok]

(* ----------------------------- requests ------------------------------- *)

U1 == <<"unknown.example">>
NOBODY == <<"nobody.example">>
T6000 == <<"https://localhost:", "6000">>
LAND_CAPS == <<"LAND.MOI.GOV.TW">>
LOCALHOST_CAPS == <<"LOCALHOST">>

WithPort(h) == h \o <<":", "8080">>

EmptyBody == [syntax |-> "empty", hostname |-> Missing, target |-> Missing, name |-> Missing]
JsonBody(h, t, n) == [syntax |-> "object", hostname |-> h, target |-> t, name |-> n]

\* bodies of POST /proxy-admin/add that pass the validation
ValidBodies ==
    {JsonBody(U1, T6000, Missing), JsonBody(LOCALHOST, T6000, <<"my issuer">>)}

\* bodies that do not: no JSON, JSON null, a field empty, a field missing
InvalidBodies ==
    {[EmptyBody EXCEPT !.syntax = "malformed"], [EmptyBody EXCEPT !.syntax = "null"],
     JsonBody(<<>>, T6000, Missing), JsonBody(U1, Missing, <<"my issuer">>)}

Request(m, h, u, b) == [method |-> m, host |-> h, url |-> u, body |-> b]

ProxiedRequests ==
    {Request("POST", WithPort(LAND), ADMIN_ADD, JsonBody(U1, T6000, Missing)),
     Request("GET", NOBODY, WELL_KNOWN \o <<"/jwks">>, EmptyBody),
     Request("GET", WithPort(U1), WELL_KNOWN, EmptyBody)}

\* Host headers written in capitals
CapitalRequests ==
    {Request("GET", LAND_CAPS, <<"/credential">>, EmptyBody),
     Request("GET", WithPort(LOCALHOST_CAPS), ADMIN_LIST, EmptyBody)}

AdminRequests ==
    {Request("GET", WithPort(LOCALHOST), ADMIN_LIST, EmptyBody),
     Request("GET", LOCALHOST, ADMIN_PREFIX, EmptyBody),
     Request("POST", LOCALHOST, ADMIN_LIST, EmptyBody)}
    \cup {Request("POST", WithPort(LOCALHOST), ADMIN_ADD, b) :
            b \in ValidBodies \cup InvalidBodies}

Inbound == ProxiedRequests \cup CapitalRequests \cup AdminRequests

\* the request that starts a discovery
DiscoveryRequest == Request("GET", WithPort(U1), WELL_KNOWN, EmptyBody)

\* a request without Host header (HTTP/1.0): req.headers.host is undefined
Headless == Request("GET", Missing, <<"/credential">>, EmptyBody)

NoRequest == Request("", <<>>, <<>>, EmptyBody)

\* a slot that holds no request
Idle ==
    [pc |-> "idle", req |-> NoRequest, hostname |-> <<>>,
     probes |-> <<>>, forwarded |-> <<>>, responses |-> <<>>,
     saved |-> "none",        \* what this request's call of addIssuer returned
     raced |-> <<>>,          \* the hostname another request wrote while this one waited
     overwritten |-> FALSE]   \* another request wrote this one's hostname later

\* Of the answered requests only the last one is kept for inspection: when
\* request r has just been answered, the answered ones before it are dropped.
Remember(sl, r) ==
    [s \in Slots |->
        IF s # r /\ sl[r].pc = "done" /\ sl[s].pc = "done" THEN Idle ELSE sl[s]]

(* ----------------------------- responses ------------------------------ *)

Response(status, error, hostname, table) ==
    [status |-> status, error |-> error, hostname |-> hostname, table |-> table,
     admin_url |-> <<>>]

NotConfigured(hostname) ==
    [Response(404, "unconfigured issuer", hostname, <<>>) EXCEPT !.admin_url = ADMIN_URL]
DiscoveryFailed(hostname) ==
    [Response(404, "issuer not found", hostname, <<>>) EXCEPT !.admin_url = ADMIN_URL]
AdminListing(config) == Response(200, "", <<>>, config)
AdminPage == Response(200, "html", <<>>, <<>>)
AdminNoEndpoint == Response(404, "no such admin endpoint", <<>>, <<>>)
AdminAdded == Response(200, "success", <<>>, <<>>)
AdminMissingParams == Response(400, "missing parameters", <<>>, <<>>)
AdminBadFormat == Response(400, "bad request format", <<>>, <<>>)
AdminSaveFailed == Response(500, "save failed", <<>>, <<>>)
ProxyError == Response(500, "proxy error", <<>>, <<>>)
Relayed == Response(200, "relayed", <<>>, <<>>)

\* proxy.web(req, res, {target}): the request itself is handed to the forwarder
proxy_web(req, target) ==
    [target |-> target, method |-> req.method, url |-> req.url, body |-> req.body]

(* ------------------------------- state -------------------------------- *)

VARIABLES
    file,               \* issuers-config.json
    DEFAULT_ISSUERS,    \* the module-level object, shared by every handler
    slot,               \* the requests: in flight, or answered
    socket              \* per request, the connection of each of its probes

vars == <<file, DEFAULT_ISSUERS, slot, socket>>

Init ==
    /\ file \in {FileAbsent, FileCorrupt, FileJson(JSON_stringify(DefaultIssuersLiteral))}
    /\ DEFAULT_ISSUERS = DefaultIssuersLiteral
    /\ slot = [r \in Slots |-> Idle]
    /\ socket = [r \in Slots |-> <<>>]

\* the table a call of loadConfig would return now
View == loadConfig(file, DEFAULT_ISSUERS, "fail").config

(* --------------------------- handleRequest ---------------------------- *)

\* mutant: the port suffix is not removed
HostnameOf_KeepsPort(req) == req.host

\* const hostname = req.headers.host.split(':')[0]
HostnameOf(req) == SplitColon0(req.host)

\* hostname === 'localhost' && req.url.startsWith('/proxy-admin')
IsAdmin(req) == HostnameOf(req) = LOCALHOST /\ StartsWith(req.url, ADMIN_PREFIX)

\* the requests that take the admin branch, and those that do not
AdminInbound == {req \in Inbound : IsAdmin(req)}
ProxiedInbound == {req \in Inbound : ~IsAdmin(req)}

\* config[hostname] is truthy: every value of the table is an object
Configured(config, hostname) == hostname \in DOMAIN config

\* mutant: a URL that begins with the well-known path starts the discovery
Route_PrefixMatch(req, config) ==
    CASE IsAdmin(req) -> "admin"
      [] ~IsAdmin(req) /\ Configured(config, HostnameOf(req)) -> "forward"
      [] ~IsAdmin(req) /\ ~Configured(config, HostnameOf(req))
         /\ StartsWith(req.url, WELL_KNOWN) -> "discover"
      [] OTHER -> "notfound"

\* the branch handleRequest takes
Route(req, config) ==
    CASE IsAdmin(req) -> "admin"
      [] ~IsAdmin(req) /\ Configured(config, HostnameOf(req)) -> "forward"
      [] ~IsAdmin(req) /\ ~Configured(config, HostnameOf(req)) /\ req.url = WELL_KNOWN
            -> "discover"
      [] OTHER -> "notfound"

\* proxy.web(req, res, { target: config[hostname].target })
ForwardTarget(config, hostname) == config[hostname].target

\* the branch handleAdminRequest takes
AdminEndpoint(req) ==
    CASE req.url = ADMIN_LIST /\ req.method = "GET" -> "list"
      [] req.url = ADMIN_ADD /\ req.method = "POST" -> "add"
      [] req.url = ADMIN_PREFIX /\ req.method = "GET" -> "page"
      [] OTHER -> "none"

Accept(r, req) == [Idle EXCEPT !.pc = "done", !.req = req, !.hostname = HostnameOf(req)]

\* GET /proxy-admin/list: handleRequest loads, then the listing loads again
ReceiveAdminList(r, req, wr1, wr2) ==
    LET l1 == loadConfig(file, DEFAULT_ISSUERS, wr1)
        l2 == loadConfig(l1.file, DEFAULT_ISSUERS, wr2)
    IN /\ slot[r].pc = "idle"
       /\ Route(req, l1.config) = "admin"
       /\ AdminEndpoint(req) = "list"
       /\ file' = l2.file
       /\ slot' = Remember([slot EXCEPT ![r] =
                     [Accept(r, req) EXCEPT !.responses = <<AdminListing(l2.config)>>]], r)
       /\ UNCHANGED DEFAULT_ISSUERS

\* POST /proxy-admin/add: the listeners are registered, the body is awaited
ReceiveAdminAdd(r, req, wr) ==
    LET l == loadConfig(file, DEFAULT_ISSUERS, wr)
    IN /\ slot[r].pc = "idle"
       /\ Route(req, l.config) = "admin"
       /\ AdminEndpoint(req) = "add"
       /\ file' = l.file
       /\ slot' = [slot EXCEPT ![r] = [Accept(r, req) EXCEPT !.pc = "body"]]
       /\ UNCHANGED DEFAULT_ISSUERS

\* GET /proxy-admin (the console) and every other admin URL (404)
ReceiveAdminOther(r, req, wr) ==
    LET l == loadConfig(file, DEFAULT_ISSUERS, wr)
    IN /\ slot[r].pc = "idle"
       /\ Route(req, l.config) = "admin"
       /\ AdminEndpoint(req) \in {"page", "none"}
       /\ file' = l.file
       /\ slot' = Remember([slot EXCEPT ![r] =
                     [Accept(r, req) EXCEPT !.responses =
                        IF AdminEndpoint(req) = "page"
                        THEN <<AdminPage>> ELSE <<AdminNoEndpoint>>]], r)
       /\ UNCHANGED DEFAULT_ISSUERS

\* a configured hostname: proxy.web to its target
ReceiveForward(r, req, wr) ==
    LET l == loadConfig(file, DEFAULT_ISSUERS, wr)
    IN /\ slot[r].pc = "idle"
       /\ Route(req, l.config) = "forward"
       /\ file' = l.file
       /\ slot' = [slot EXCEPT ![r] =
                     [Accept(r, req) EXCEPT
                        !.pc = "forwarding",
                        !.forwarded =
                            <<proxy_web(req, ForwardTarget(l.config, HostnameOf(req)))>>]]
       /\ UNCHANGED DEFAULT_ISSUERS

\* an unknown hostname asking for the well-known path: discoverIssuer runs up
\* to its first await, with the probe of ports[0] sent
ReceiveDiscover(r, req, wr) ==
    LET l == loadConfig(file, DEFAULT_ISSUERS, wr)
    IN /\ slot[r].pc = "idle"
       /\ Route(req, l.config) = "discover"
       /\ file' = l.file
       /\ slot' = [slot EXCEPT ![r] =
                     [Accept(r, req) EXCEPT
                        !.pc = "probing",
                        !.probes = <<[port |-> ports[1], outcome |-> "pending"]>>]]
       /\ UNCHANGED DEFAULT_ISSUERS

\* an unknown hostname asking for anything else: 404
ReceiveNotFound(r, req, wr) ==
    LET l == loadConfig(file, DEFAULT_ISSUERS, wr)
    IN /\ slot[r].pc = "idle"
       /\ Route(req, l.config) = "notfound"
       /\ file' = l.file
       /\ slot' = Remember([slot EXCEPT ![r] =
                     [Accept(r, req) EXCEPT
                        !.responses = <<NotConfigured(HostnameOf(req))>>]], r)
       /\ UNCHANGED DEFAULT_ISSUERS

\* no Host header: req.headers.host.split throws a TypeError in the listener
\* of the server, nothing catches it and the process exits; it is started
\* again, the requests that were in flight are lost
ReceiveWithoutHost(r) ==
    /\ slot[r].pc = "idle"
    /\ slot' = [s \in Slots |->
                  IF s = r THEN [Idle EXCEPT !.pc = "uncaught", !.req = Headless]
                  ELSE IF slot[s].pc = "done" THEN slot[s] ELSE Idle]
    /\ DEFAULT_ISSUERS' = DefaultIssuersLiteral
    /\ UNCHANGED file

(* ------------------------- handleAdminRequest ------------------------- *)

\* JSON.parse(body) throws, or destructuring its result (null) does
ParseThrows(body) == body.syntax # "object"

\* mutant: only the hostname is validated
MissingParams_HostnameOnly(body) == Falsy(body.hostname)

\* !hostname || !target
MissingParams(body) == Falsy(body.hostname) \/ Falsy(body.target)

\* name || hostname
NameOrHostname(body) == IF Falsy(body.name) THEN body.hostname ELSE body.name

\* a request whose handler has still to call addIssuer
UpsertPending(sl) ==
    \/ sl.pc = "probing"
    \/ sl.pc = "body" /\ ~ParseThrows(sl.req.body) /\ ~MissingParams(sl.req.body)

\* bookkeeping at the addIssuer(h, ...) of request r: an acknowledged add for
\* h has been written over; a request that has still to make its own upsert
\* has seen another request's upsert go first
MarkOthers(sl, r, h, ok) ==
    [s \in Slots |->
        IF s # r /\ sl[s].pc = "done" /\ sl[s].req.url = ADMIN_ADD
           /\ sl[s].saved = "ok" /\ sl[s].req.body.hostname = h
        THEN [sl[s] EXCEPT !.overwritten = TRUE]
        ELSE IF s # r /\ UpsertPending(sl[s]) /\ ok
        THEN [sl[s] EXCEPT !.raced = h]
        ELSE sl[s]]

\* the ways the write of loadConfig can end: it writes only when the file is
\* absent or unparsable
LoadOutcomes == IF file.kind = "json" THEN {"ok"} ELSE WriteOutcomes

\* req.on('end'): the body is complete
AdminAddEnd(r) ==
    LET body == slot[r].req.body
        answer(resp) == [slot[r] EXCEPT !.pc = "done", !.responses = <<resp>>]
    IN /\ slot[r].pc = "body"
       /\ IF ParseThrows(body)
          THEN /\ slot' = Remember([slot EXCEPT ![r] = answer(AdminBadFormat)], r)
               /\ UNCHANGED <<file, DEFAULT_ISSUERS>>
          ELSE IF MissingParams(body)
          THEN /\ slot' = Remember([slot EXCEPT ![r] = answer(AdminMissingParams)], r)
               /\ UNCHANGED <<file, DEFAULT_ISSUERS>>
          ELSE \E wr1 \in LoadOutcomes, wr2 \in WriteOutcomes :
                 LET a == addIssuer(body.hostname, body.target, NameOrHostname(body),
                                    file, DEFAULT_ISSUERS, wr1, wr2)
                 IN /\ file' = a.file
                    /\ DEFAULT_ISSUERS' = a.defaults
                    /\ slot' = Remember(
                                 [MarkOthers(slot, r, body.hostname, a.ok) EXCEPT ![r] =
                                    [answer(IF a.ok THEN AdminAdded ELSE AdminSaveFailed)
                                       EXCEPT !.saved = IF a.ok THEN "ok" ELSE "failed"]], r)

(* --------------------------- discoverIssuer --------------------------- *)

ProbeStatuses == {200, 404}

\* mutant: the target is built from the first port of the list
CurrentPort_First(sl) == sl.probes[1].port

\* the probe whose answer is awaited
CurrentPort(sl) == sl.probes[Len(sl.probes)].port

Settle(sl, outcome) ==
    [sl EXCEPT !.probes[Len(sl.probes)].outcome = outcome]

\* mutant: the loop stops one port early
ProbeFailed_OffByOne(sl) ==
    LET done == Settle(sl, "failed")
        i == Len(sl.probes)
    IN IF i + 1 < Len(ports)
       THEN [done EXCEPT !.probes = Append(done.probes,
                                      [port |-> ports[i + 1], outcome |-> "pending"])]
       ELSE [done EXCEPT !.pc = "done",
                         !.responses = Append(done.responses, DiscoveryFailed(sl.hostname))]

\* mutant: after the last port the loop starts over at the first
ProbeFailed_StartsOver(sl) ==
    LET done == Settle(sl, "failed")
        i == Len(sl.probes)
    IN [done EXCEPT !.probes = Append(done.probes,
                                 [port |-> ports[(i % Len(ports)) + 1],
                                  outcome |-> "pending"])]

\* mutant: the port that failed is probed again before the next one
ProbeFailed_Retries(sl) ==
    LET done == Settle(sl, "failed")
        i == Len(sl.probes)
        again == i = 1 /\ sl.probes[i].port = ports[1]
    IN IF i < Len(ports)
       THEN [done EXCEPT !.probes = Append(done.probes,
                                      [port |-> ports[IF again THEN i ELSE i + 1],
                                       outcome |-> "pending"])]
       ELSE [done EXCEPT !.pc = "done",
                         !.responses = Append(done.responses, DiscoveryFailed(sl.hostname))]

\* resolve(false): the loop goes on to the next port, or ends with the 404
ProbeFailed(sl) ==
    LET done == Settle(sl, "failed")
        i == Len(sl.probes)
    IN IF i < Len(ports)
       THEN [done EXCEPT !.probes = Append(done.probes,
                                      [port |-> ports[i + 1], outcome |-> "pending"])]
       ELSE [done EXCEPT !.pc = "done",
                         !.responses = Append(done.responses, DiscoveryFailed(sl.hostname))]

\* statusCode 200: addIssuer has run (its result is not looked at), then
\* proxy.web to this port's target, resolve(true), return
ProbeFound(sl, ok) ==
    [Settle(sl, "200") EXCEPT
        !.pc = "forwarding",
        !.saved = IF ok THEN "ok" ELSE "failed",
        !.forwarded = Append(sl.forwarded, proxy_web(sl.req, TargetOf(CurrentPort(sl))))]

\* the callback of https.request: the probe was answered
ProbeResponse(r, status) ==
    LET sl == slot[r]
    IN /\ sl.pc = "probing"
       /\ IF status = 200
          THEN \E wr1 \in LoadOutcomes, wr2 \in WriteOutcomes :
                 LET a == addIssuer(sl.hostname, TargetOf(CurrentPort(sl)),
                                    AutoName(sl.hostname),
                                    file, DEFAULT_ISSUERS, wr1, wr2)
                 IN /\ file' = a.file
                    /\ DEFAULT_ISSUERS' = a.defaults
                    /\ slot' = [MarkOthers(slot, r, sl.hostname, a.ok) EXCEPT ![r] =
                                 ProbeFound(sl, a.ok)]
          ELSE /\ slot' = Remember([slot EXCEPT ![r] = ProbeFailed(sl)], r)
               /\ UNCHANGED <<file, DEFAULT_ISSUERS>>

\* testReq.on('error')
ProbeError(r) ==
    /\ slot[r].pc = "probing"
    /\ slot' = Remember([slot EXCEPT ![r] = ProbeFailed(slot[r])], r)
    /\ UNCHANGED <<file, DEFAULT_ISSUERS>>

\* testReq.on('timeout'): the probe is destroyed
ProbeTimeout(r) ==
    /\ slot[r].pc = "probing"
    /\ slot' = Remember([slot EXCEPT ![r] = ProbeFailed(slot[r])], r)
    /\ UNCHANGED <<file, DEFAULT_ISSUERS>>

\* mutant: a promise that is settled is resolved again and wakes the loop
resolveFalse_Again(sl, i) ==
    IF sl.pc = "probing" THEN ProbeFailed(sl) ELSE sl

\* resolve(false) in a handler of probe i: a promise settles once, a later
\* resolve does nothing
resolveFalse(sl, i) ==
    IF sl.probes[i].outcome # "pending" THEN sl ELSE ProbeFailed(sl)

\* The connection of a probe: "awaiting" (sent, nothing came back),
\* "answered" (the callback of https.request ran; the body is never read and
\* the connection stays open), "destroyed" (testReq.destroy() in the timeout
\* handler), "closed" (an error was emitted), "hungup" (the error that follows
\* a destroy).  The probe's first event is one of ProbeResponse, ProbeError,
\* ProbeTimeout; here are the events that can still come after it.

\* 'timeout' on a connection that was answered and then stayed idle
LateTimeout(r, i) ==
    /\ i \in 1..Len(socket[r])
    /\ socket[r][i] = "answered"
    /\ slot' = [slot EXCEPT ![r] = resolveFalse(slot[r], i)]
    /\ socket' = [socket EXCEPT ![r][i] = "destroyed"]
    /\ UNCHANGED <<file, DEFAULT_ISSUERS>>

\* 'error' after the probe's first event: the socket hang up that a destroy
\* brings, or a reset of a connection that was answered
LateError(r, i) ==
    /\ i \in 1..Len(socket[r])
    /\ socket[r][i] \in {"answered", "destroyed"}
    /\ slot' = [slot EXCEPT ![r] = resolveFalse(slot[r], i)]
    /\ socket' = [socket EXCEPT ![r][i] =
                    IF socket[r][i] = "destroyed" THEN "hungup" ELSE "closed"]
    /\ UNCHANGED <<file, DEFAULT_ISSUERS>>

\* the connections after a step of request r: the probe that was awaited is
\* now in state event (when there is one), a probe just sent is awaited, and
\* a request that is no longer looked at has none
Follow(r, event) ==
    socket' =
      [s \in Slots |->
         IF slot'[s].pc \in {"idle", "uncaught"} THEN <<>>
         ELSE IF s # r THEN socket[s]
         ELSE LET n == Len(socket[r])
                  t == IF n > 0 /\ event # "" THEN [socket[r] EXCEPT ![n] = event]
                       ELSE socket[r]
              IN IF Len(slot'[r].probes) > Len(t) THEN Append(t, "awaiting") ELSE t]

(* ------------------------------ the proxy ----------------------------- *)

\* the backend answered and http-proxy relayed its answer
ForwardResponse(r) ==
    /\ slot[r].pc = "forwarding"
    /\ slot' = Remember([slot EXCEPT ![r] = [@ EXCEPT !.pc = "done",
                                             !.responses = Append(@, Relayed)]], r)
    /\ UNCHANGED <<file, DEFAULT_ISSUERS>>

\* proxy.on('error'): 500
ForwardError(r) ==
    /\ slot[r].pc = "forwarding"
    /\ slot' = Remember([slot EXCEPT ![r] = [@ EXCEPT !.pc = "done",
                                             !.responses = Append(@, ProxyError)]], r)
    /\ UNCHANGED <<file, DEFAULT_ISSUERS>>

(* --------------------------- the environment -------------------------- *)

\* an answered request is no longer looked at
Forget(r) ==
    /\ slot[r].pc \in {"done", "uncaught"}
    /\ slot' = [slot EXCEPT ![r] = Idle]
    /\ UNCHANGED <<file, DEFAULT_ISSUERS>>

\* a handler that is about to write the file, or would if it ran now
WritePossible ==
    \/ file.kind # "json"
    \/ \E r \in Slots : UpsertPending(slot[r])

\* the process is killed and started again: the requests in flight are lost,
\* the module is evaluated afresh; killed inside writeFileSync, the file is
\* left truncated (torn)
Crash(torn) ==
    /\ torn => WritePossible
    /\ file' = IF torn THEN FileCorrupt ELSE file
    /\ DEFAULT_ISSUERS' = DefaultIssuersLiteral
    /\ slot' = [r \in Slots |-> IF slot[r].pc = "done" THEN slot[r] ELSE Idle]

Next ==
    \/ \E r \in Slots, req \in AdminInbound, wr1, wr2 \in LoadOutcomes :
          ReceiveAdminList(r, req, wr1, wr2) /\ UNCHANGED socket
    \/ \E r \in Slots, req \in AdminInbound, wr \in LoadOutcomes :
          ReceiveAdminAdd(r, req, wr) /\ UNCHANGED socket
    \/ \E r \in Slots, req \in AdminInbound, wr \in LoadOutcomes :
          ReceiveAdminOther(r, req, wr) /\ UNCHANGED socket
    \/ \E r \in Slots, req \in ProxiedInbound, wr \in LoadOutcomes :
          ReceiveForward(r, req, wr) /\ UNCHANGED socket
    \/ \E r \in Slots, req \in ProxiedInbound, wr \in LoadOutcomes :
          ReceiveDiscover(r, req, wr) /\ UNCHANGED socket
    \/ \E r \in Slots, req \in ProxiedInbound, wr \in LoadOutcomes :
          ReceiveNotFound(r, req, wr) /\ UNCHANGED socket
    \/ \E r \in Slots : ReceiveWithoutHost(r) /\ UNCHANGED socket
    \/ \E r \in Slots : AdminAddEnd(r) /\ UNCHANGED socket
    \/ \E r \in Slots, status \in ProbeStatuses : ProbeResponse(r, status) /\ UNCHANGED socket
    \/ \E r \in Slots : ProbeError(r) /\ UNCHANGED socket
    \/ \E r \in Slots : ProbeTimeout(r) /\ UNCHANGED socket
    \/ \E r \in Slots : ForwardResponse(r) /\ UNCHANGED socket
    \/ \E r \in Slots : ForwardError(r) /\ UNCHANGED socket
    \/ \E r \in Slots : Forget(r) /\ UNCHANGED socket
    \/ \E torn \in BOOLEAN : Crash(torn) /\ UNCHANGED socket

\* Every request, with the process that can be killed; the connections of the
\* probes are not followed here (what comes on them after a probe's first
\* event changes nothing, see Probes).
Spec == Init /\ [][Next]_vars

\* The discovery alone, each probe followed to the last event of its
\* connection: one request at a time, and the next one after it.
Probers == {"r1"}

NextProbes ==
    \/ \E r \in Probers, wr \in LoadOutcomes :
          ReceiveDiscover(r, DiscoveryRequest, wr) /\ Follow(r, "")
    \/ \E r \in Probers, wr \in LoadOutcomes :
          ReceiveForward(r, DiscoveryRequest, wr) /\ Follow(r, "")
    \/ \E r \in Probers, status \in ProbeStatuses :
          ProbeResponse(r, status) /\ Follow(r, "answered")
    \/ \E r \in Probers : ProbeError(r) /\ Follow(r, "closed")
    \/ \E r \in Probers : ProbeTimeout(r) /\ Follow(r, "destroyed")
    \/ \E r \in Probers, i \in 1..NumPorts : LateTimeout(r, i)
    \/ \E r \in Probers, i \in 1..NumPorts : LateError(r, i)
    \/ \E r \in Probers : ForwardResponse(r) /\ Follow(r, "")
    \/ \E r \in Probers : ForwardError(r) /\ Follow(r, "")
    \/ \E r \in Probers : Forget(r) /\ Follow(r, "")

Probes == Init /\ [][NextProbes]_vars

\* a probe that is awaited gets its first event: each has a timeout of one
\* second, so that without answer and without error the timeout comes
ProbeEvent(r) ==
    \/ \E status \in ProbeStatuses : ProbeResponse(r, status) /\ Follow(r, "answered")
    \/ ProbeError(r) /\ Follow(r, "closed")
    \/ ProbeTimeout(r) /\ Follow(r, "destroyed")

FairProbes == Probes /\ \A r \in Probers : WF_vars(ProbeEvent(r))

(* ------------------------------ the claims ---------------------------- *)

\* request r arrives in this step
Arrives(r) == slot[r].pc = "idle" /\ slot'[r].pc # "idle"

\* the table in the file, when the file holds one
Persisted == JSON_parse(file.text)

\* C1: a request that is not an admin request and whose Host header is a
\* hostname h of the routing table, with or without a port suffix, is handed
\* to the forwarder once, for table[h].target, with its own method, URL and
\* body; it gets no local answer, and what was forwarded is never replaced
C1_ForwardsToTableTarget ==
    [][\A r \in Slots :
         /\ \A h \in DOMAIN View :
              LET q == slot'[r].req
              IN (/\ Arrives(r)
                  /\ q.host \in {h, h \o <<":", "8080">>}
                  /\ ~(h = <<"localhost">> /\ StartsWith(q.url, <<"/proxy-admin">>)))
                 => /\ slot'[r].pc = "forwarding"
                    /\ slot'[r].responses = <<>>
                    /\ slot'[r].forwarded =
                         <<[target |-> View[h].target, method |-> q.method,
                            url |-> q.url, body |-> q.body]>>
         /\ slot[r].forwarded # <<>>
              => slot'[r].forwarded = slot[r].forwarded \/ slot'[r] = Idle
      ]_vars

\* C1 witness: a POST with Host land.moi.gov.tw:8080 is being
\* forwarded to https://localhost:5001
C1_Witness ==
    \E r \in Slots :
        /\ slot[r].pc = "forwarding"
        /\ slot[r].req.host = <<"land.moi.gov.tw", ":", "8080">>
        /\ slot[r].req.method = "POST"
        /\ slot[r].forwarded[1].target = <<"https://localhost:", "5001">>
        /\ slot[r].forwarded[1].body = slot[r].req.body

\* the probes of one discovery attempt: made in list order from the first
\* port, each port once, the next one only after the one before has failed
InListOrder(sl) ==
    /\ Len(sl.probes) <= Len(AllPorts)
    /\ \A i \in 1..Len(sl.probes) :
         /\ sl.probes[i].port = AllPorts[i]
         /\ i < Len(sl.probes) => sl.probes[i].outcome = "failed"

\* the attempt of request r finds its issuer in this step
Found(r) == slot[r].pc = "probing" /\ slot'[r].pc = "forwarding"

\* the entry a discovery for hostname h registers at the port it found
DiscoveredRoute(h, port) ==
    [target |-> <<"https://localhost:", ToString(port)>>,
     name |-> <<"auto-discovered issuer (">> \o h \o <<")">>]

\* the attempt stopped at the first port that answered 200 and the request
\* was forwarded there, once; without a 200 nothing is forwarded
SelectsFirst200(sl) ==
    LET n == Len(sl.probes)
    IN sl.probes # <<>> =>
         /\ InListOrder(sl)
         /\ IF sl.probes[n].outcome = "200"
            THEN sl.forwarded =
                   <<[target |-> DiscoveredRoute(sl.hostname, AllPorts[n]).target,
                      method |-> sl.req.method, url |-> sl.req.url, body |-> sl.req.body]>>
            ELSE sl.forwarded = <<>> /\ sl.saved = "none"

\* C2 as stated: the first port that answers 200 is selected, the request is
\* forwarded there, no later port is probed, and the routing table holds
\* h -> https://localhost:{port} from then on
C2_RegistersAlways ==
    [][\A r \in Slots :
         /\ SelectsFirst200(slot'[r])
         /\ Found(r) =>
              /\ slot[r].hostname \in DOMAIN View'
              /\ View'[slot[r].hostname] =
                   DiscoveredRoute(slot[r].hostname, AllPorts[Len(slot[r].probes)])
      ]_vars

\* what discoverIssuer does do: the first port that answers 200 is selected,
\* the request is forwarded there and no later port is probed; when the write
\* of the file succeeds the file holds the table that was loaded plus exactly
\* h -> https://localhost:{port}; when it fails the request is forwarded all
\* the same
C2_RegistersWhenSaved ==
    [][\A r \in Slots :
         /\ SelectsFirst200(slot'[r])
         /\ (Found(r) /\ slot'[r].saved = "ok") =>
              /\ file'.kind = "json"
              /\ Persisted' =
                   Assign(View, slot[r].hostname,
                          DiscoveredRoute(slot[r].hostname, AllPorts[Len(slot[r].probes)]))
      ]_vars

\* the scenario of C2: unknown.example, port 5000 failed, port 5001 answered 200: the
\* file has unknown.example -> https://localhost:5001 and the request goes there
C2_Witness ==
    \E r \in Slots :
        /\ slot[r].hostname = <<"unknown.example">>
        /\ Len(slot[r].probes) = 2
        /\ slot[r].probes[1].outcome = "failed"
        /\ slot[r].probes[2].outcome = "200"
        /\ slot[r].saved = "ok"
        /\ file.kind = "json"
        /\ <<"unknown.example">> \in DOMAIN Persisted
        /\ Persisted[<<"unknown.example">>].target = <<"https://localhost:", "5001">>
        /\ slot[r].forwarded[1].target = <<"https://localhost:", "5001">>

\* request r's attempt made a step: a probe failed
ProbeFails(r) ==
    /\ slot[r].pc = "probing"
    /\ \/ Len(slot'[r].probes) > Len(slot[r].probes)
       \/ slot'[r].pc = "done"

\* C3: when the probe of every candidate port has failed the client gets the
\* 404 that reports the failed discovery, the request is not forwarded, and
\* no step of the attempt (its arrival, its failed probes) changes the table
C3_ExhaustedIs404 ==
    [][\A r \in Slots :
         LET after == slot'[r]
             allFailed == /\ Len(after.probes) = Len(ports)
                          /\ \A i \in 1..Len(after.probes) :
                               after.probes[i].outcome = "failed"
         IN /\ allFailed <=>
                 (after.pc = "done" /\ after.responses = <<DiscoveryFailed(after.hostname)>>)
            /\ allFailed => after.forwarded = <<>> /\ after.saved = "none"
            /\ ProbeFails(r) => file' = file /\ DEFAULT_ISSUERS' = DEFAULT_ISSUERS
            /\ (Arrives(r) /\ after.pc = "probing") =>
                  View' = View /\ DEFAULT_ISSUERS' = DEFAULT_ISSUERS
      ]_vars

\* C3 witness: every port was probed and failed, and the 404 was sent
C3_Witness ==
    \E r \in Slots :
        /\ slot[r].pc = "done"
        /\ Len(slot[r].probes) = NumPorts
        /\ slot[r].responses = <<DiscoveryFailed(<<"unknown.example">>)>>
        /\ slot[r].responses[1].status = 404

\* a body that POST /proxy-admin/add must refuse
Refusable(body) ==
    \/ body.syntax # "object"
    \/ body.hostname \in {Missing, <<>>}
    \/ body.target \in {Missing, <<>>}

\* C5: an add whose body is malformed or lacks a non-empty hostname or target
\* is answered 400 and nothing is upserted: the step that answers leaves the
\* file and DEFAULT_ISSUERS as they were, and the arrival of the request
\* leaves the table as it was
C5_InvalidAddIs400 ==
    [][\A r \in Slots :
         /\ (slot[r].pc = "body" /\ slot'[r].pc = "done" /\ Refusable(slot[r].req.body)) =>
              /\ Len(slot'[r].responses) = 1
              /\ slot'[r].responses[1].status = 400
              /\ slot'[r].saved = "none"
              /\ file' = file
              /\ DEFAULT_ISSUERS' = DEFAULT_ISSUERS
         /\ (Arrives(r) /\ slot'[r].pc = "body") =>
              View' = View /\ DEFAULT_ISSUERS' = DEFAULT_ISSUERS
      ]_vars

\* C5 witness: {"hostname": "", "target": "https://localhost:6000"} was answered 400
C5_Witness ==
    \E r \in Slots :
        /\ slot[r].pc = "done"
        /\ slot[r].req.body.syntax = "object"
        /\ slot[r].req.body.hostname = <<>>
        /\ slot[r].req.body.target = <<"https://localhost:", "6000">>
        /\ slot[r].responses = <<AdminMissingParams>>

\* the hostname and the entry of the upsert that request sl makes
UpsertHost(sl) == IF sl.req.url = ADMIN_ADD THEN sl.req.body.hostname ELSE sl.hostname

SubmittedRoute(body) ==
    [target |-> body.target,
     name |-> IF body.name \in {Missing, <<>>} THEN body.hostname ELSE body.name]

UpsertRoute(sl) ==
    IF sl.req.url = ADMIN_ADD
    THEN SubmittedRoute(sl.req.body)
    ELSE DiscoveredRoute(sl.hostname, AllPorts[Len(sl.probes)])

\* request r calls addIssuer in this step
UpsertBy(r) == slot[r].saved = "none" /\ slot'[r].saved # "none"

\* C4 as stated: an add that was acknowledged with success is in the file, as
\* submitted, and is what a list or a dispatch reads, until another upsert
\* writes its hostname
C4_AcknowledgedStaysPersisted ==
    \A r \in Slots :
        (/\ slot[r].pc = "done"
         /\ slot[r].responses = <<AdminAdded>>
         /\ ~slot[r].overwritten)
        => /\ file.kind = "json"
           /\ UpsertHost(slot[r]) \in DOMAIN View
           /\ View[UpsertHost(slot[r])] = SubmittedRoute(slot[r].req.body)

\* C6 as stated: an add whose write failed is answered 500 and is not
\* committed: the entry it tried to write is not what a later list or dispatch
\* reads for that hostname, unless it was there before
C6_FailedAddNotCommitted ==
    [][\A r \in Slots :
         (slot[r].pc = "body" /\ slot'[r].pc = "done" /\ slot'[r].saved = "failed") =>
            LET h == UpsertHost(slot[r])
                route == SubmittedRoute(slot[r].req.body)
            IN /\ slot'[r].responses = <<AdminSaveFailed>>
               /\ (h \in DOMAIN View' /\ View'[h] = route)
                     => (h \in DOMAIN View /\ View[h] = route)
      ]_vars

\* C7: no update is lost.  An upsert that succeeds leaves in the file its own
\* entry and every entry of another hostname that the file held; and between
\* upserts a file that holds a table is changed by nothing but a kill of the
\* process.  So of two requests in flight together whose upserts both succeed,
\* the second finds the first one's entry and keeps it.
C7_NoLostUpdate ==
    [][/\ \A r \in Slots :
            (UpsertBy(r) /\ slot'[r].saved = "ok") =>
               LET h == UpsertHost(slot'[r])
               IN /\ file'.kind = "json"
                  /\ h \in DOMAIN Persisted'
                  /\ Persisted'[h] = UpsertRoute(slot'[r])
                  /\ file.kind = "json" =>
                       \A g \in DOMAIN Persisted \ {h} :
                          g \in DOMAIN Persisted' /\ Persisted'[g] = Persisted[g]
       /\ (file.kind = "json" /\ file' # file) =>
             \/ \E r \in Slots : UpsertBy(r)
             \/ \E r \in Slots : slot[r].pc \notin {"idle", "done"} /\ slot'[r].pc = "idle"
      ]_vars

\* C7 witness: a request made its upsert while another request, which had
\* still to make its own for a different hostname, was in flight; that one's
\* upsert succeeded too and the file holds both entries
C7_Witness ==
    \E r \in Slots :
        /\ slot[r].saved = "ok"
        /\ slot[r].raced # <<>>
        /\ slot[r].raced # UpsertHost(slot[r])
        /\ file.kind = "json"
        /\ {slot[r].raced, UpsertHost(slot[r])} \subseteq DOMAIN Persisted
        /\ Persisted[UpsertHost(slot[r])] = UpsertRoute(slot[r])

\* for each hostname, the entries an upsert can write whole, and the built-in one
CompleteRoutes ==
    [h \in DOMAIN DefaultIssuersLiteral \cup {U1} \cup {v.hostname : v \in ValidBodies} |->
        {DefaultIssuersLiteral[g] : g \in {h} \cap DOMAIN DefaultIssuersLiteral}
        \cup {SubmittedRoute(b) : b \in {v \in ValidBodies : v.hostname = h}}
        \cup {DiscoveredRoute(h, AllPorts[i]) : i \in 1..Len(AllPorts)}]

Intact(table) ==
    \A h \in DOMAIN table : h \in DOMAIN CompleteRoutes /\ table[h] \in CompleteRoutes[h]

\* what the readers see: the table a load returns now, the tables the listings
\* returned, the targets the dispatcher forwarded to
ReadersSeeWholeEntries ==
    /\ Intact(View)
    /\ \A r \in Slots :
         /\ (slot[r].req.url = ADMIN_LIST /\ slot[r].req.method = "GET"
             /\ slot[r].pc = "done") => Intact(slot[r].responses[1].table)
         /\ \A i \in 1..Len(slot[r].forwarded) :
              /\ slot[r].hostname \in DOMAIN CompleteRoutes
              /\ slot[r].forwarded[i].target \in
                    {e.target : e \in CompleteRoutes[slot[r].hostname]}

\* C8: every entry a reader sees is the built-in entry or the whole entry of
\* one upsert, never the target of one with the name of another; and after
\* an upsert that succeeds its own whole entry is the one in the table (the
\* later of two upserts of a hostname wins)
C8_OneWholeWinner ==
    /\ []ReadersSeeWholeEntries
    /\ [][\A r \in Slots :
            (UpsertBy(r) /\ slot'[r].saved = "ok") =>
               /\ UpsertHost(slot'[r]) \in DOMAIN View'
               /\ View'[UpsertHost(slot'[r])] = UpsertRoute(slot'[r])
         ]_vars

\* C8 witness: while a request waited to make its upsert another request wrote
\* the same hostname; then its own upsert succeeded, and its entry is the one
\* in the table
C8_Witness ==
    \E r \in Slots :
        /\ slot[r].saved = "ok"
        /\ slot[r].raced = UpsertHost(slot[r])
        /\ UpsertHost(slot[r]) \in DOMAIN View
        /\ View[UpsertHost(slot[r])] = UpsertRoute(slot[r])

\* C9 as stated: a kill of the process, at whatever step of a save, leaves the
\* file as it was before the write or holding the whole table written, never
\* a half-written file
C9_SaveIsCrashAtomic ==
    [][\A torn \in BOOLEAN :
         Crash(torn) => (file' = file \/ file'.kind = "json")
      ]_vars

\* C10 as stated: a load that finds the file absent or unparsable returns the
\* built-in table (fido.moi.gov.tw, land.moi.gov.tw, zuvi.io with their
\* targets), and what it then writes to the file is that table.  The load is
\* observed through GET /proxy-admin/list, which returns what it loaded.
C10_LoadFallsBackToBuiltIn ==
    [][\A r \in Slots :
         (/\ Arrives(r)
          /\ slot'[r].req.url = ADMIN_LIST /\ slot'[r].req.method = "GET"
          /\ slot'[r].pc = "done"
          /\ file.kind # "json")
         => /\ slot'[r].responses[1].table = DefaultIssuersLiteral
            /\ file'.kind = "json" => Persisted' = DefaultIssuersLiteral
      ]_vars

\* String.prototype.toLowerCase, for the Host headers met here
toLowerCase(s) ==
    [i \in DOMAIN s |->
        CASE s[i] = "LAND.MOI.GOV.TW" -> "land.moi.gov.tw"
          [] s[i] = "LOCALHOST" -> "localhost"
          [] OTHER -> s[i]]

\* the hostname of a Host header as the dispatcher is to derive it: without
\* the port suffix, in lower case
Normalized(host) == toLowerCase(SplitColon0(host))

\* what was decided for a request, read off the state it was put in on arrival
Decision(sl) ==
    CASE sl.pc = "uncaught" -> "threw"
      [] sl.pc = "probing" -> "discover"
      [] sl.pc = "forwarding" -> "forward"
      [] sl.pc = "done" /\ sl.responses = <<NotConfigured(sl.hostname)>> -> "notfound"
      [] OTHER -> "admin"

\* list or add was reached
ReachedListOrAdd(sl) ==
    \/ sl.pc = "body"
    \/ sl.responses # <<>> /\ sl.responses[1] = AdminListing(sl.responses[1].table)

\* C11 as stated: a request goes to the Admin API exactly when its normalized
\* hostname (no port, lower case) is localhost and its URL begins with
\* /proxy-admin; such a request is never forwarded, whatever the table holds
\* for localhost; a request with another hostname never reaches list or add
C11_AdminGate ==
    [][\A r \in Slots :
         (Arrives(r) /\ slot'[r].req.host # Missing) =>
            LET q == slot'[r].req
                gate == Normalized(q.host) = LOCALHOST /\ StartsWith(q.url, ADMIN_PREFIX)
            IN /\ gate <=> Decision(slot'[r]) = "admin"
               /\ gate => slot'[r].forwarded = <<>>
               /\ Normalized(q.host) # LOCALHOST => ~ReachedListOrAdd(slot'[r])
      ]_vars

\* the same with the hostname as handleRequest derives it (the port removed,
\* the case kept): this is what the gate does
AdminGateOnDerivedHostname ==
    [][\A r \in Slots :
         (Arrives(r) /\ slot'[r].req.host # Missing) =>
            LET q == slot'[r].req
                gate == SplitColon0(q.host) = LOCALHOST /\ StartsWith(q.url, ADMIN_PREFIX)
            IN /\ gate <=> Decision(slot'[r]) = "admin"
               /\ gate => slot'[r].forwarded = <<>>
               /\ SplitColon0(q.host) # LOCALHOST => ~ReachedListOrAdd(slot'[r])
      ]_vars

\* C12 as stated: a request is dispatched as the request with the same Host
\* in lower case and without port would be: the same of admin, forward,
\* discovery and 404, and when forwarded the same target
C12_HostIsNormalized ==
    [][\A r \in Slots :
         (Arrives(r) /\ slot'[r].req.host # Missing) =>
            LET q == slot'[r].req
                n == [q EXCEPT !.host = Normalized(q.host)]
            IN /\ Decision(slot'[r]) = Route(n, View)
               /\ Decision(slot'[r]) = "forward" =>
                    slot'[r].forwarded[1].target = View[n.host].target
      ]_vars

\* the port suffix alone makes no difference
PortSuffixIsStripped ==
    [][\A r \in Slots :
         (Arrives(r) /\ slot'[r].req.host # Missing) =>
            LET q == slot'[r].req
                n == [q EXCEPT !.host = SplitColon0(q.host)]
            IN /\ Decision(slot'[r]) = Route(n, View)
               /\ Decision(slot'[r]) = "forward" =>
                    slot'[r].forwarded[1].target = View[n.host].target
      ]_vars

C14_NoRequestCrashes ==
    \A r \in Slots : slot[r].pc # "uncaught"

\* the faults that are handled: a malformed or incomplete admin body is
\* answered 400, a failed probe moves to the next port or to the 404, and a
\* failed forward is answered 500 once and not sent again
FaultsAreAnswered ==
    [][\A r \in Slots :
         /\ (slot[r].pc = "body" /\ slot'[r].pc \notin {"idle", "body"}
             /\ Refusable(slot[r].req.body)) =>
               slot'[r].pc = "done" /\ slot'[r].responses[1].status = 400
         /\ ProbeFails(r) =>
               \/ slot'[r].pc = "probing" /\ Len(slot'[r].probes) = Len(slot[r].probes) + 1
               \/ slot'[r].pc = "done" /\ slot'[r].responses = <<DiscoveryFailed(slot[r].hostname)>>
         /\ (slot[r].pc = "forwarding" /\ slot'[r].pc # "idle") =>
               /\ slot'[r].forwarded = slot[r].forwarded
               /\ slot'[r].pc = "done" => slot'[r].responses \in {<<Relayed>>, <<ProxyError>>}
      ]_vars

\* C15 as stated: whatever request is handled, a hostname that is in the
\* table stays in it, and its entry is changed only by a step in which a
\* request makes its upsert for that hostname (the steps in which the process
\* dies are left aside)
C15_OnlyUpsertsChangeTable ==
    [][(/\ ~ \E torn \in BOOLEAN : Crash(torn)
        /\ \A r \in Slots : slot'[r].pc = "uncaught" => slot[r].pc = "uncaught") =>
         \A h \in DOMAIN View :
            /\ h \in DOMAIN View'
            /\ View'[h] # View[h] =>
                 \E r \in Slots : UpsertBy(r) /\ UpsertHost(slot'[r]) = h
      ]_vars

\* C16 as stated: when a probe is sent for hostname h, and when a discovery
\* writes its entry for h, the table has no entry for h
C16_NoProbeForKnownHost ==
    [][\A r \in Slots :
         /\ Len(slot'[r].probes) > Len(slot[r].probes) =>
               slot'[r].hostname \notin DOMAIN View'
         /\ Found(r) => slot[r].hostname \notin DOMAIN View
      ]_vars

\* what the miss branch does ensure: on the arrival of the request that
\* starts a discovery, its hostname has no entry
DiscoveryStartsOnMiss ==
    [][\A r \in Slots :
         (Arrives(r) /\ slot'[r].pc = "probing") =>
            slot'[r].hostname \notin DOMAIN View /\ slot'[r].hostname \notin DOMAIN View'
      ]_vars

\* probes were sent for request sl and nothing else has happened to it
Attempting(sl) == sl.probes # <<>>

\* C17: in one attempt the ports are probed in list order from the first,
\* each once; only the probe sent last can be awaiting its answer, and only
\* while the attempt goes on; a probe is sent only in the step in which the
\* one before it fails; and the request that starts an attempt starts it
\* with a probe of the first port alone, whatever attempts came before
C17_SequentialProbing ==
    /\ [](\A r \in Slots :
            Attempting(slot[r]) =>
               /\ InListOrder(slot[r])
               /\ \A i \in 1..Len(slot[r].probes) :
                    slot[r].probes[i].outcome = "pending" =>
                       i = Len(slot[r].probes) /\ slot[r].pc = "probing")
    /\ [][\A r \in Slots :
            /\ (Arrives(r) /\ slot'[r].pc = "probing") =>
                  slot'[r].probes = <<[port |-> AllPorts[1], outcome |-> "pending"]>>
            /\ (~Arrives(r) /\ Len(slot'[r].probes) > Len(slot[r].probes)) =>
                  /\ Len(slot'[r].probes) = Len(slot[r].probes) + 1
                  /\ slot[r].probes[Len(slot[r].probes)].outcome = "pending"
                  /\ slot'[r].probes[Len(slot[r].probes)].outcome = "failed"
         ]_vars

\* C17 witness: an attempt for unknown.example ended with every port failed,
\* and the next request for unknown.example is probing the first port again
C17_Witness ==
    \E r, s \in Slots :
        /\ slot[r].pc = "done"
        /\ slot[r].responses = <<DiscoveryFailed(U1)>>
        /\ slot[s].pc = "probing"
        /\ slot[s].hostname = U1
        /\ slot[s].probes = <<[port |-> 5000, outcome |-> "pending"]>>

\* an event on the connection of probe i of request r that is not its first
LateEvent(r, i) ==
    /\ i <= Len(socket[r]) /\ i <= Len(socket'[r])
    /\ socket[r][i] # "awaiting"
    /\ socket'[r][i] # socket[r][i]

\* the timeout of probe i of request r elapses before any answer or error
TimesOut(r, i) ==
    /\ i <= Len(socket[r]) /\ i <= Len(socket'[r])
    /\ socket[r][i] = "awaiting"
    /\ socket'[r][i] = "destroyed"

\* C18: the step in which a probe times out marks it failed, registers and
\* forwards nothing, and moves the attempt on once, to the next port or to
\* the 404; whatever comes later on a probe's connection, after its timeout
\* or after its answer (a timeout, the error of the destroyed connection),
\* changes nothing; and the request is never forwarded to the port of a
\* probe that failed
C18_TimeoutCancelsProbe ==
    /\ [](\A r \in Slots : \A i \in 1..Len(slot[r].probes) :
            slot[r].probes[i].outcome = "failed" =>
               \A k \in 1..Len(slot[r].forwarded) :
                  slot[r].forwarded[k].target # TargetOf(slot[r].probes[i].port))
    /\ [][\A r \in Slots : \A i \in 1..Len(AllPorts) :
            /\ LateEvent(r, i) =>
                  slot' = slot /\ file' = file /\ DEFAULT_ISSUERS' = DEFAULT_ISSUERS
            /\ TimesOut(r, i) =>
                  /\ slot'[r].probes[i].outcome = "failed"
                  /\ slot'[r].forwarded = <<>>
                  /\ slot'[r].saved = "none"
                  /\ file' = file /\ DEFAULT_ISSUERS' = DEFAULT_ISSUERS
                  /\ \/ /\ slot'[r].pc = "probing"
                        /\ Len(slot'[r].probes) = i + 1
                        /\ slot'[r].probes[i + 1] = [port |-> AllPorts[i + 1], outcome |-> "pending"]
                     \/ /\ i = Len(ports)
                        /\ slot'[r].pc = "done"
                        /\ Len(slot'[r].probes) = i
                        /\ slot'[r].responses = <<DiscoveryFailed(slot[r].hostname)>>
         ]_vars

\* C18 witness: the first probe timed out and was destroyed, the error of the
\* destroyed connection came after, and the attempt is one port further,
\* awaiting the second probe
C18_Witness ==
    \E r \in Slots :
        /\ Len(socket[r]) = 2
        /\ socket[r][1] = "hungup"
        /\ socket[r][2] = "awaiting"
        /\ slot[r].pc = "probing"
        /\ slot[r].probes[1].outcome = "failed"
        /\ slot[r].probes[2] = [port |-> 5001, outcome |-> "pending"]

\* C19: when every probe that is awaited gets an answer, an error or its
\* timeout, an attempt never sends more probes than there are ports, and
\* it comes to its end: the request is handed to the forwarder for the port
\* that answered 200, or the client gets the 404 of the failed discovery
C19_DiscoveryTerminates ==
    /\ [](\A r \in Slots : Len(slot[r].probes) <= Len(ports))
    /\ \A r \in Slots :
         (slot[r].pc = "probing") ~>
            \/ slot[r].pc = "forwarding" /\ Len(slot[r].forwarded) = 1
            \/ slot[r].pc = "done" /\ slot[r].responses = <<DiscoveryFailed(slot[r].hostname)>>

\* C19 witness: every port but the last failed, the last answered 200, and
\* the request was handed to the forwarder
C19_Witness ==
    \E r \in Slots :
        /\ slot[r].pc = "forwarding"
        /\ Len(slot[r].probes) = NumPorts
        /\ slot[r].probes[NumPorts].outcome = "200"
        /\ \A i \in 1..(NumPorts - 1) : slot[r].probes[i].outcome = "failed"
        /\ Len(slot[r].forwarded) = 1

\* a response written by the server's own handlers, not by the forwarder
Local(resp) == resp \notin {Relayed, ProxyError}

\* the outcomes a request has had so far: each hand-over to the forwarder
\* (what the forwarder then writes, the upstream's answer or its own 500,
\* belongs to that hand-over) and each response of the server's own handlers
Outcomes(sl) == Len(sl.forwarded) + Len(SelectSeq(sl.responses, Local))

\* C20: a request never has two outcomes, and a request whose handling is
\* over, answered or thrown out of, has exactly one: it was handed to the
\* forwarder once or got one response of the server's own
C20_ExactlyOneOutcome ==
    \A r \in Slots :
        /\ Outcomes(slot[r]) <= 1
        /\ slot[r].pc \in {"done", "uncaught"} => Outcomes(slot[r]) = 1

\* Apart from the request that arrives without a Host header, every request
\* has one outcome at most while it is handled and exactly one at its end;
\* a discovery never forwards twice, and never both forwards and writes the
\* 404; the forwarder writes only after a hand-over, and once
NoSecondOutcome ==
    \A r \in Slots :
        /\ Outcomes(slot[r]) <= 1
        /\ slot[r].pc = "done" => Outcomes(slot[r]) = 1
        /\ slot[r].pc = "uncaught" => Outcomes(slot[r]) = 0
        /\ Len(slot[r].responses) <= 1
        /\ slot[r].responses # <<>> /\ ~Local(slot[r].responses[1]) =>
              Len(slot[r].forwarded) = 1
        /\ slot[r].responses # <<>> /\ Local(slot[r].responses[1]) =>
              slot[r].forwarded = <<>>

====
